---------------------------- MODULE Spec2Model ----------------------------
(***************************************************************************)
(* Task Board API (backend/main.py): an in-memory list of task records     *)
(* and the six request handlers that read and mutate it.                   *)
(*                                                                         *)
(* Encodings.  An Optional value is a set: {} is Python's None and {v} is  *)
(* the value v.  A str that the code compares or trims is a sequence: a    *)
(* title is a sequence of one-character strings, a timestamp string is a   *)
(* sequence of character codes, compared as Python compares str            *)
(* (lexicographically by code point).  progress.percentage is kept in      *)
(* tenths (66.7 is 667).  A dict is a function on its key set.             *)
(***************************************************************************)
EXTENDS Integers, Sequences, FiniteSets

(* ------------------------------ bounds --------------------------------- *)
\* Spec: at most MaxTasks tasks are ever created and the clock reads
\* 0..MaxTime microseconds; request bodies are small.
MaxTasks == 3
MaxTime == 1
\* SpecFields: at most MaxFieldTasks tasks are ever created, by requests
\* that carry every combination of fields, with titles of at most
\* MaxTitleLen characters.
MaxFieldTasks == 2
MaxTitleLen == 2
\* SpecThreads: MaxThreads worker threads run handlers at the same time;
\* they are handed at most MaxRequests requests and create at most
\* MaxThreadTasks tasks.
MaxThreads == 2
MaxRequests == 4
MaxThreadTasks == 2

(* --------------------------- program constants ------------------------- *)
DefaultPriority == "medium"
DefaultCategory == "general"
HTTP_OK == 200
HTTP_BAD_REQUEST == 400
HTTP_NOT_FOUND == 404
MicrosPerSecond == 1000000
MicroDigits == 6
SecondDigits == 2
DotCode == 46
ZeroCode == 48

(* ------------------------------ inputs --------------------------------- *)
None == {}
Some(v) == {v}
Val(o) == CHOOSE v \in o : TRUE
Opt(S) == {None} \cup {Some(v) : v \in S}

Whitespace == {" "}
Chars == {" ", "a"}
TitlesUpTo(n) == UNION {[1..k -> Chars] : k \in 0..n}
Priorities == {"high"}
Categories == {"work"}

VARIABLES tasks_db, issued, last, hist, threads, acked
vars == <<tasks_db, issued, last, hist, threads, acked>>

(* ------------------------- library functions --------------------------- *)
RECURSIVE lstrip(_)
lstrip(s) ==
    IF s = <<>> THEN s
    ELSE IF Head(s) \in Whitespace THEN lstrip(Tail(s)) ELSE s

RECURSIVE rstrip(_)
rstrip(s) ==
    IF s = <<>> THEN s
    ELSE IF s[Len(s)] \in Whitespace THEN rstrip(SubSeq(s, 1, Len(s) - 1))
    ELSE s

\* str.strip(): leading and trailing whitespace removed
strip(s) == rstrip(lstrip(s))

RECURSIVE Digits(_, _)
Digits(n, w) ==
    IF w = 0 THEN <<>>
    ELSE Digits(n \div 10, w - 1) \o <<ZeroCode + (n % 10)>>

\* datetime.isoformat(), the part after the minutes: "SS" when the
\* microsecond field is 0, "SS.ffffff" otherwise
isoformat(t) ==
    LET s == (t \div MicrosPerSecond) % 60
        u == t % MicrosPerSecond
    IN  Digits(s, SecondDigits)
          \o (IF u = 0 THEN <<>> ELSE <<DotCode>> \o Digits(u, MicroDigits))

\* Python's str < str
RECURSIVE StrLess(_, _)
StrLess(a, b) ==
    IF b = <<>> THEN FALSE
    ELSE IF a = <<>> THEN TRUE
    ELSE IF Head(a) # Head(b) THEN Head(a) < Head(b)
    ELSE StrLess(Tail(a), Tail(b))

uuid4_fixed(n) == 1

\* uuid4(): the model draws identifiers 1, 2, ... ; n identifiers were
\* drawn before
uuid4(n) == n + 1

\* round(n / d, 0) for n >= 0, d > 0: Python rounds halves to even
RoundHalfEven(n, d) ==
    LET q == n \div d
        r == n % d
    IN  IF 2 * r < d THEN q
        ELSE IF 2 * r > d THEN q + 1
        ELSE IF q % 2 = 0 THEN q ELSE q + 1

(* ------------------------------ models --------------------------------- *)
\* TaskCreate: priority and category default when the request omits them
TaskCreate(title, priority, category) ==
    [title |-> title,
     priority |-> IF priority = None THEN DefaultPriority ELSE Val(priority),
     category |-> IF category = None THEN DefaultCategory ELSE Val(category)]

\* TaskUpdate: every field Optional, None when the request omits it
TaskUpdate(title, completed, priority, category) ==
    [title |-> title, completed |-> completed,
     priority |-> priority, category |-> category]

NoBody == TaskUpdate(None, None, None, None)

(* ------------------------------ helpers -------------------------------- *)
\* sum(1 for task in tasks_db if task["completed"])
RECURSIVE CompletedCount(_)
CompletedCount(db) ==
    IF db = <<>> THEN 0
    ELSE (IF Head(db).completed THEN 1 ELSE 0) + CompletedCount(Tail(db))

PercentageTruncated(db) == (CompletedCount(db) * 1000) \div Len(db)

\* round((completed / total) * 100, 1), in tenths
Percentage(db) == RoundHalfEven(CompletedCount(db) * 1000, Len(db))

calculate_progress(db) ==
    IF Len(db) = 0
    THEN [percentage |-> 0, completed |-> 0, total |-> 0]
    ELSE [percentage |-> Percentage(db),
          completed |-> CompletedCount(db),
          total |-> Len(db)]

EmptyDict == [c \in {} |-> [total |-> 0, completed |-> 0]]

CountTaskAlwaysCompleted(categories, task) ==
    LET cat == task.category
        old == IF cat \in DOMAIN categories THEN categories[cat]
               ELSE [total |-> 0, completed |-> 0]
        new == [total |-> old.total + 1, completed |-> old.completed + 1]
    IN  [c \in DOMAIN categories \cup {cat} |->
            IF c = cat THEN new ELSE categories[c]]

\* one iteration of the loop of get_category_stats
CountTask(categories, task) ==
    LET cat == task.category
        old == IF cat \in DOMAIN categories THEN categories[cat]
               ELSE [total |-> 0, completed |-> 0]
        new == [total |-> old.total + 1,
                completed |-> IF task.completed THEN old.completed + 1
                              ELSE old.completed]
    IN  [c \in DOMAIN categories \cup {cat} |->
            IF c = cat THEN new ELSE categories[c]]

RECURSIVE CategoryLoop(_, _)
CategoryLoop(db, categories) ==
    IF db = <<>> THEN categories
    ELSE CategoryLoop(Tail(db), CountTask(categories, Head(db)))

get_category_stats(db) == CategoryLoop(db, EmptyDict)

InsertAsc(s, x) ==
    LET p == Cardinality({i \in DOMAIN s :
                            ~StrLess(x.created_at, s[i].created_at)})
    IN  SubSeq(s, 1, p) \o <<x>> \o SubSeq(s, p + 1, Len(s))

InsertDescBeforeEqual(s, x) ==
    LET p == Cardinality({i \in DOMAIN s :
                            StrLess(x.created_at, s[i].created_at)})
    IN  SubSeq(s, 1, p) \o <<x>> \o SubSeq(s, p + 1, Len(s))

\* sorted(..., key=created_at, reverse=True) is stable: x goes after every
\* element whose key is not smaller than its own
InsertDesc(s, x) ==
    LET p == Cardinality({i \in DOMAIN s :
                            ~StrLess(s[i].created_at, x.created_at)})
    IN  SubSeq(s, 1, p) \o <<x>> \o SubSeq(s, p + 1, Len(s))

RECURSIVE SortLoop(_, _)
SortLoop(db, acc) ==
    IF db = <<>> THEN acc
    ELSE SortLoop(Tail(db), InsertDesc(acc, Head(db)))

sorted(db) == SortLoop(db, <<>>)

\* index of the first task with the given id, 0 when there is none
FirstIndex(db, task_id) ==
    IF \E i \in DOMAIN db : db[i].id = task_id
    THEN CHOOSE i \in DOMAIN db :
            /\ db[i].id = task_id
            /\ \A j \in 1..(i - 1) : db[j].id # task_id
    ELSE 0

\* [task for task in db if ...]: the tasks at the indices in kept, in order
Keep(db, kept) ==
    LET F[i \in 0..Len(db)] ==
            IF i = 0 THEN <<>>
            ELSE IF i \in kept THEN Append(F[i - 1], db[i]) ELSE F[i - 1]
    IN  F[Len(db)]

(* ----------------------------- responses ------------------------------- *)
Response(op, id, body, status, task, progress) ==
    [op |-> op, id |-> id, body |-> body, status |-> status,
     task |-> task, progress |-> progress, deleted_count |-> None,
     tasks |-> <<>>, category_stats |-> EmptyDict]

HTTPException(op, id, body, status) ==
    Response(op, id, body, status, None, None)

NoStreak == [id |-> 0, n |-> 0, before |-> FALSE, first |-> FALSE]

\* a worker thread: the handler it runs, the statement it is at, the
\* handler's local variables, and the response of its last request
Threads == 1..MaxThreads

NoResponse ==
    [op |-> "none", status |-> HTTP_OK, removed |-> FALSE, tasks |-> <<>>,
     progress |-> None, category_stats |-> EmptyDict]

Idle ==
    [op |-> "idle", pc |-> "idle", task_id |-> 0, new_task |-> None,
     length |-> 0, list |-> <<>>, seen |-> {}, removed |-> FALSE,
     progress |-> None, response |-> NoResponse]

(* ------------------------------ state ---------------------------------- *)
Init ==
    /\ threads = [t \in Threads |-> Idle]
    /\ acked = [started |-> 0, created |-> {}, dropped |-> {}]
    /\ tasks_db = <<>>
    /\ issued = 0
    /\ last = Response("start", 0, NoBody, HTTP_OK, None, None)
    /\ hist = [creates |-> 0, removed |-> FALSE, toggles |-> NoStreak,
               assigned |-> {}]

(* ------------------------------ handlers ------------------------------- *)
\* datetime.now() is evaluated only on the branch that stores it: the
\* readings the clock can give when it is called, one dummy when it is not
datetime_now(clock, called) == IF called THEN clock ELSE {0}

get_all_tasks_in_place ==
    /\ tasks_db' = sorted(tasks_db)
    /\ last' = [Response("list", 0, NoBody, HTTP_OK, None,
                         Some(calculate_progress(tasks_db)))
                  EXCEPT !.tasks = sorted(tasks_db),
                         !.category_stats = get_category_stats(tasks_db)]
    /\ hist' = [hist EXCEPT !.toggles = NoStreak]
    /\ UNCHANGED issued

get_all_tasks ==
    /\ last' = [Response("list", 0, NoBody, HTTP_OK, None,
                         Some(calculate_progress(tasks_db)))
                  EXCEPT !.tasks = sorted(tasks_db),
                         !.category_stats = get_category_stats(tasks_db)]
    /\ hist' = [hist EXCEPT !.toggles = NoStreak]
    /\ UNCHANGED <<tasks_db, issued>>

NewTaskUntrimmed(task, id, now) ==
    [id |-> id,
     title |-> task.title,
     completed |-> FALSE,
     priority |-> task.priority,
     category |-> task.category,
     created_at |-> isoformat(now),
     completed_at |-> None]

NewTask(task, id, now) ==
    [id |-> id,
     title |-> strip(task.title),
     completed |-> FALSE,
     priority |-> task.priority,
     category |-> task.category,
     created_at |-> isoformat(now),
     completed_at |-> None]

TitleIsEmptyUntrimmed(task) == task.title = <<>>

\* not task.title.strip()
TitleIsEmpty(task) == strip(task.title) = <<>>

create_task(title, priority, category, clock) ==
    LET task == TaskCreate(title, priority, category)
        body == TaskUpdate(Some(title), None, priority, category)
    IN  IF TitleIsEmpty(task)
        THEN /\ last' = HTTPException("create", 0, body, HTTP_BAD_REQUEST)
             /\ hist' = [hist EXCEPT !.toggles = NoStreak]
             /\ UNCHANGED <<tasks_db, issued>>
        ELSE \E now \in datetime_now(clock, TRUE) :
             LET new_task == NewTask(task, uuid4(issued), now) IN
             /\ tasks_db' = Append(tasks_db, new_task)
             /\ issued' = issued + 1
             /\ last' = Response("create", 0, body, HTTP_OK, Some(new_task),
                                 Some(calculate_progress(tasks_db')))
             /\ hist' = [hist EXCEPT !.creates = @ + 1,
                                     !.toggles = NoStreak,
                                     !.assigned = @ \cup {new_task.id}]

ToggledKeepsStamp(task, now) ==
    [task EXCEPT !.completed = ~task.completed,
                 !.completed_at = IF ~task.completed
                                  THEN Some(isoformat(now)) ELSE @]

ToggledStampsCreated(task, now) ==
    [task EXCEPT !.completed = ~task.completed,
                 !.completed_at = IF ~task.completed
                                  THEN Some(isoformat(now)) ELSE None,
                 !.created_at = IF ~task.completed
                                THEN isoformat(now) ELSE @]

Toggled(task, now) ==
    [task EXCEPT !.completed = ~task.completed,
                 !.completed_at = IF ~task.completed
                                  THEN Some(isoformat(now)) ELSE None]

toggle_task_completion(task_id, clock) ==
    LET i == FirstIndex(tasks_db, task_id) IN
    IF i = 0
    THEN /\ last' = HTTPException("toggle", task_id, NoBody, HTTP_NOT_FOUND)
         /\ hist' = [hist EXCEPT !.toggles = NoStreak]
         /\ UNCHANGED <<tasks_db, issued>>
    ELSE \E now \in datetime_now(clock, ~tasks_db[i].completed) :
         /\ tasks_db' = [tasks_db EXCEPT ![i] = Toggled(tasks_db[i], now)]
         /\ last' = Response("toggle", task_id, NoBody, HTTP_OK,
                             Some(tasks_db'[i]),
                             Some(calculate_progress(tasks_db')))
         /\ hist' = [hist EXCEPT !.toggles =
                        IF hist.toggles.id = task_id
                        THEN [id |-> task_id, n |-> 2,
                              before |-> tasks_db[i].completed,
                              first |-> hist.toggles.before]
                        ELSE [id |-> task_id, n |-> 1,
                              before |-> tasks_db[i].completed,
                              first |-> FALSE]]
         /\ UNCHANGED issued

SetCompletedOnly(task, completed, now) ==
    IF completed = None THEN task
    ELSE [task EXCEPT !.completed = Val(completed)]

SetCompleted(task, completed, now) ==
    IF completed = None THEN task
    ELSE [task EXCEPT !.completed = Val(completed),
                      !.completed_at = IF Val(completed)
                                       THEN Some(isoformat(now)) ELSE None]

UpdatedOverwrites(task, task_update, now) ==
    LET t1 == IF task_update.title # None
              THEN [task EXCEPT !.title = strip(Val(task_update.title))]
              ELSE task
        t2 == SetCompleted(t1, task_update.completed, now)
        t3 == [t2 EXCEPT !.priority =
                  IF task_update.priority # None
                  THEN Val(task_update.priority) ELSE DefaultPriority]
    IN  IF task_update.category # None
        THEN [t3 EXCEPT !.category = Val(task_update.category)]
        ELSE t3

Updated(task, task_update, now) ==
    LET t1 == IF task_update.title # None
              THEN [task EXCEPT !.title = strip(Val(task_update.title))]
              ELSE task
        t2 == SetCompleted(t1, task_update.completed, now)
        t3 == IF task_update.priority # None
              THEN [t2 EXCEPT !.priority = Val(task_update.priority)]
              ELSE t2
    IN  IF task_update.category # None
        THEN [t3 EXCEPT !.category = Val(task_update.category)]
        ELSE t3

\* the request body enters the log when the handler reads it (line 140)
update_task(task_id, task_update, clock) ==
    LET i == FirstIndex(tasks_db, task_id) IN
    IF i = 0
    THEN /\ last' = HTTPException("update", task_id, NoBody, HTTP_NOT_FOUND)
         /\ hist' = [hist EXCEPT !.toggles = NoStreak]
         /\ UNCHANGED <<tasks_db, issued>>
    ELSE \E now \in datetime_now(clock, task_update.completed = Some(TRUE)) :
         /\ tasks_db' = [tasks_db EXCEPT
                            ![i] = Updated(tasks_db[i], task_update, now)]
         /\ last' = Response("update", task_id, task_update, HTTP_OK,
                             Some(tasks_db'[i]),
                             Some(calculate_progress(tasks_db')))
         /\ hist' = [hist EXCEPT !.toggles = NoStreak]
         /\ UNCHANGED issued

SameId(task, task_id) == task.id = task_id

LaterId(task, task_id) == task.id > task_id

OtherId(task, task_id) == task.id # task_id

delete_task(task_id) ==
    LET original_length == Len(tasks_db)
        filtered == Keep(tasks_db, {i \in DOMAIN tasks_db :
                                      OtherId(tasks_db[i], task_id)})
    IN  /\ tasks_db' = filtered
        /\ IF Len(filtered) = original_length
           THEN /\ last' = HTTPException("delete", task_id, NoBody,
                                         HTTP_NOT_FOUND)
                /\ hist' = [hist EXCEPT !.toggles = NoStreak]
           ELSE /\ last' = Response("delete", task_id, NoBody, HTTP_OK, None,
                                    Some(calculate_progress(filtered)))
                /\ hist' = [hist EXCEPT !.removed = TRUE,
                                        !.toggles = NoStreak]
        /\ UNCHANGED issued

IsCompleted(task) == task.completed

NotCompleted(task) == ~task.completed

clear_completed_tasks ==
    LET before_count == Len(tasks_db)
        filtered == Keep(tasks_db, {i \in DOMAIN tasks_db :
                                      NotCompleted(tasks_db[i])})
        deleted_count == before_count - Len(filtered)
    IN  /\ tasks_db' = filtered
        /\ last' = [Response("clear", 0, NoBody, HTTP_OK, None,
                             Some(calculate_progress(filtered)))
                      EXCEPT !.deleted_count = Some(deleted_count)]
        /\ hist' = [hist EXCEPT !.removed = @ \/ deleted_count > 0,
                                !.toggles = NoStreak]
        /\ UNCHANGED issued

(* --------------------------- specifications ---------------------------- *)
\* The requests a specification sends: the titles, priorities and
\* categories of a Create, the bodies of an Update, the readings of the
\* clock, and how many tasks are created at most.
SmallRequests ==
    [titles |-> TitlesUpTo(1),
     priorities |-> {None},
     categories |-> Opt(Categories),
     bodies |-> {TaskUpdate(None, c, None, g) :
                    c \in Opt(BOOLEAN), g \in Opt(Categories)},
     clock |-> 0..MaxTime,
     max |-> MaxTasks]

FieldRequests ==
    [titles |-> TitlesUpTo(MaxTitleLen),
     priorities |-> Opt(Priorities),
     categories |-> Opt(Categories),
     bodies |-> {TaskUpdate(t, c, p, g) :
                    t \in Opt(TitlesUpTo(MaxTitleLen)), c \in Opt(BOOLEAN),
                    p \in Opt(Priorities), g \in Opt(Categories)},
     clock |-> {0},
     max |-> MaxFieldTasks]

\* identifiers a request may name: every one drawn so far and one unknown
RequestIds == 1..(issued + 1)

Sequential == UNCHANGED <<threads, acked>>

List == get_all_tasks /\ Sequential

Create(R) ==
    /\ issued < R.max
    /\ Sequential
    /\ \E title \in R.titles, priority \in R.priorities,
          category \in R.categories :
            create_task(title, priority, category, R.clock)

Toggle(R) ==
    /\ Sequential
    /\ \E task_id \in RequestIds : toggle_task_completion(task_id, R.clock)

Update(R) ==
    /\ Sequential
    /\ \E task_id \in RequestIds, task_update \in R.bodies :
        update_task(task_id, task_update, R.clock)

Delete == Sequential /\ \E task_id \in RequestIds : delete_task(task_id)

ClearCompleted == clear_completed_tasks /\ Sequential

Requests(R) ==
    List \/ Create(R) \/ Toggle(R) \/ Update(R) \/ Delete \/ ClearCompleted

Next == Requests(SmallRequests)

Spec == Init /\ [][Next]_vars

NextFields == Requests(FieldRequests)

SpecFields == Init /\ [][NextFields]_vars

(* ------------------------- concurrent handlers ------------------------- *)
\* The handlers are plain functions, which the server runs in worker
\* threads: a thread may be suspended between two statements of a handler.
\* A step below is one statement (a comprehension, sorted() and a helper
\* call are taken as one step each).  A task is a dict that every list
\* holding it shares, so an assignment to a field of the task with
\* identifier id is made in the collection and in the lists the running
\* handlers hold.
Ids(db) == {db[i].id : i \in DOMAIN db}

Assign(db, id, field, value) ==
    [i \in DOMAIN db |->
        IF db[i].id = id THEN [db[i] EXCEPT ![field] = value] ELSE db[i]]

Local(t) == threads[t]

Goto(t, local) == threads' = [threads EXCEPT ![t] = local]

Return(t, response) ==
    threads' = [threads EXCEPT ![t] = [Idle EXCEPT !.response = response]]

ThreadFrame == UNCHANGED <<last, hist>>

\* identifiers a client can name: those a Create has returned, and one
\* that is never drawn
KnownIds == acked.created \cup {MaxThreadTasks + 1}

\* a request is handed to an idle worker thread
Start(t) ==
    /\ Local(t).pc = "idle"
    /\ acked.started < MaxRequests
    /\ acked' = [acked EXCEPT !.started = @ + 1]
    /\ \E op \in {"create", "toggle", "delete", "clear", "list"},
          task_id \in KnownIds :
          /\ op = "create" => issued < MaxThreadTasks
          /\ Goto(t, [Idle EXCEPT
                        !.op = op,
                        !.pc = "first",
                        !.task_id = IF op \in {"toggle", "delete"}
                                    THEN task_id ELSE 0])
    /\ UNCHANGED <<tasks_db, issued>>
    /\ ThreadFrame

\* create_task, lines 96-108: the title "a" passes the check
CreateBuild(t) ==
    /\ Local(t).op = "create" /\ Local(t).pc = "first"
    /\ ~TitleIsEmpty(TaskCreate(<<"a">>, None, None))
    /\ issued' = issued + 1
    /\ Goto(t, [Local(t) EXCEPT
                  !.pc = "append",
                  !.new_task = Some(NewTask(TaskCreate(<<"a">>, None, None),
                                            uuid4(issued), 0))])
    /\ UNCHANGED <<tasks_db, acked>>
    /\ ThreadFrame

\* line 109
CreateAppend(t) ==
    /\ Local(t).op = "create" /\ Local(t).pc = "append"
    /\ tasks_db' = Append(tasks_db, Val(Local(t).new_task))
    /\ Goto(t, [Local(t) EXCEPT !.pc = "return"])
    /\ UNCHANGED <<issued, acked>>
    /\ ThreadFrame

\* lines 111-115
CreateReturn(t) ==
    /\ Local(t).op = "create" /\ Local(t).pc = "return"
    /\ Return(t, [NoResponse EXCEPT
                    !.op = "create",
                    !.progress = Some(calculate_progress(tasks_db))])
    /\ acked' = [acked EXCEPT
                    !.created = @ \cup {Val(Local(t).new_task).id}]
    /\ UNCHANGED <<tasks_db, issued>>
    /\ ThreadFrame

\* toggle_task_completion, lines 121-122 and 132: the loop variable holds
\* the task it found
ToggleFind(t) ==
    /\ Local(t).op = "toggle" /\ Local(t).pc = "first"
    /\ LET i == FirstIndex(tasks_db, Local(t).task_id) IN
       IF i = 0
       THEN Return(t, [NoResponse EXCEPT !.op = "toggle",
                                         !.status = HTTP_NOT_FOUND])
       ELSE Goto(t, [Local(t) EXCEPT !.pc = "flip",
                                     !.list = <<tasks_db[i]>>])
    /\ UNCHANGED <<tasks_db, issued, acked>>
    /\ ThreadFrame

SharedAssign(t, pc, field, value) ==
    LET id == Local(t).task_id IN
    /\ tasks_db' = Assign(tasks_db, id, field, value)
    /\ threads' = [u \in Threads |->
          [threads[u] EXCEPT
              !.list = Assign(threads[u].list, id, field, value),
              !.pc = IF u = t THEN pc ELSE @]]

\* line 123
ToggleFlip(t) ==
    /\ Local(t).op = "toggle" /\ Local(t).pc = "flip"
    /\ SharedAssign(t, "stamp", "completed", ~Local(t).list[1].completed)
    /\ UNCHANGED <<issued, acked>>
    /\ ThreadFrame

\* lines 124-125
ToggleStamp(t) ==
    /\ Local(t).op = "toggle" /\ Local(t).pc = "stamp"
    /\ SharedAssign(t, "return", "completed_at",
                    IF Local(t).list[1].completed
                    THEN Some(isoformat(0)) ELSE None)
    /\ UNCHANGED <<issued, acked>>
    /\ ThreadFrame

\* lines 126-130
ToggleReturn(t) ==
    /\ Local(t).op = "toggle" /\ Local(t).pc = "return"
    /\ Return(t, [NoResponse EXCEPT
                    !.op = "toggle",
                    !.progress = Some(calculate_progress(tasks_db))])
    /\ UNCHANGED <<tasks_db, issued, acked>>
    /\ ThreadFrame

\* delete_task line 163, clear_completed_tasks line 180
FilterLen(t) ==
    /\ Local(t).op \in {"delete", "clear"} /\ Local(t).pc = "first"
    /\ Goto(t, [Local(t) EXCEPT !.pc = "filter",
                                !.length = Len(tasks_db)])
    /\ UNCHANGED <<tasks_db, issued, acked>>
    /\ ThreadFrame

\* the comprehension of line 164 or of line 181
FilterBuild(t) ==
    /\ Local(t).op \in {"delete", "clear"} /\ Local(t).pc = "filter"
    /\ LET kept == IF Local(t).op = "delete"
                   THEN {i \in DOMAIN tasks_db :
                           OtherId(tasks_db[i], Local(t).task_id)}
                   ELSE {i \in DOMAIN tasks_db : NotCompleted(tasks_db[i])}
       IN  Goto(t, [Local(t) EXCEPT
                      !.pc = "assign",
                      !.list = Keep(tasks_db, kept),
                      !.seen = Ids(tasks_db) \ Ids(Keep(tasks_db, kept))])
    /\ UNCHANGED <<tasks_db, issued, acked>>
    /\ ThreadFrame

\* the assignment to the global of line 164 or of line 181; seen holds
\* the identifiers the comprehension left out
FilterAssign(t) ==
    /\ Local(t).op \in {"delete", "clear"} /\ Local(t).pc = "assign"
    /\ tasks_db' = Local(t).list
    /\ Goto(t, [Local(t) EXCEPT
                  !.pc = "return",
                  !.removed = Local(t).task_id \in
                                  (Ids(tasks_db) \ Ids(Local(t).list))])
    /\ acked' = [acked EXCEPT !.dropped = @ \cup Local(t).seen]
    /\ UNCHANGED issued
    /\ ThreadFrame

\* lines 166-173
DeleteReturn(t) ==
    /\ Local(t).op = "delete" /\ Local(t).pc = "return"
    /\ IF Len(tasks_db) = Local(t).length
       THEN Return(t, [NoResponse EXCEPT !.op = "delete",
                                         !.status = HTTP_NOT_FOUND,
                                         !.removed = Local(t).removed])
       ELSE Return(t, [NoResponse EXCEPT
                         !.op = "delete",
                         !.removed = Local(t).removed,
                         !.progress = Some(calculate_progress(tasks_db))])
    /\ UNCHANGED <<tasks_db, issued, acked>>
    /\ ThreadFrame

\* lines 182-189
ClearReturn(t) ==
    /\ Local(t).op = "clear" /\ Local(t).pc = "return"
    /\ Return(t, [NoResponse EXCEPT
                    !.op = "clear",
                    !.progress = Some(calculate_progress(tasks_db))])
    /\ UNCHANGED <<tasks_db, issued, acked>>
    /\ ThreadFrame

\* get_all_tasks, lines 83-85
ListSort(t) ==
    /\ Local(t).op = "list" /\ Local(t).pc = "first"
    /\ Goto(t, [Local(t) EXCEPT !.pc = "progress",
                                !.list = sorted(tasks_db)])
    /\ UNCHANGED <<tasks_db, issued, acked>>
    /\ ThreadFrame

\* line 88
ListProgress(t) ==
    /\ Local(t).op = "list" /\ Local(t).pc = "progress"
    /\ Goto(t, [Local(t) EXCEPT
                  !.pc = "return",
                  !.progress = Some(calculate_progress(tasks_db))])
    /\ UNCHANGED <<tasks_db, issued, acked>>
    /\ ThreadFrame

\* lines 89-90: the tasks are encoded as they are when the handler returns
ListReturn(t) ==
    /\ Local(t).op = "list" /\ Local(t).pc = "return"
    /\ Return(t, [NoResponse EXCEPT
                    !.op = "list",
                    !.tasks = Local(t).list,
                    !.progress = Local(t).progress,
                    !.category_stats = get_category_stats(tasks_db)])
    /\ UNCHANGED <<tasks_db, issued, acked>>
    /\ ThreadFrame

NextThreads ==
    \E t \in Threads :
        \/ Start(t)
        \/ CreateBuild(t) \/ CreateAppend(t) \/ CreateReturn(t)
        \/ ToggleFind(t) \/ ToggleFlip(t) \/ ToggleStamp(t)
        \/ ToggleReturn(t)
        \/ FilterLen(t) \/ FilterBuild(t) \/ FilterAssign(t)
        \/ DeleteReturn(t) \/ ClearReturn(t)
        \/ ListSort(t) \/ ListProgress(t) \/ ListReturn(t)

SpecThreads == Init /\ [][NextThreads]_vars

(* ------------------------------ properties ----------------------------- *)
TaskWithId(id) == tasks_db[FirstIndex(tasks_db, id)]

Blank(raw) == \A k \in DOMAIN raw : raw[k] \in Whitespace

\* t is raw without its leading and trailing whitespace, and is not empty
IsTrimOf(t, raw) ==
    /\ t # <<>>
    /\ t[1] \notin Whitespace
    /\ t[Len(t)] \notin Whitespace
    /\ \E i \in 0..Len(raw) :
          /\ i + Len(t) <= Len(raw)
          /\ SubSeq(raw, i + 1, i + Len(t)) = t
          /\ \A k \in 1..i : raw[k] \in Whitespace
          /\ \A k \in (i + Len(t) + 1)..Len(raw) : raw[k] \in Whitespace

Supplied(field, default) == IF field = None THEN default ELSE Val(field)

\* C1: in every reachable state every task of the collection has
\* completed_at non-null if and only if its completed flag is true.
CompletedAtIffCompleted ==
    \A i \in DOMAIN tasks_db :
        (tasks_db[i].completed_at # None) <=> tasks_db[i].completed

\* an Update that supplied completed=true has just completed a task
CompletedByUpdate ==
    /\ last.op = "update"
    /\ last.status = HTTP_OK
    /\ last.body.completed = Some(TRUE)
    /\ Val(last.task).completed_at # None

\* C2: in every reachable state the title of every task of the collection
\* is non-empty after trimming, Updates that supply a title included.
TitleNeverEmpty ==
    \A i \in DOMAIN tasks_db : ~Blank(tasks_db[i].title)

\* C3: a Create whose trimmed title is non-empty succeeds and appends
\* exactly one task at the end, with the trimmed title, completed false,
\* completed_at null, the supplied priority and category ("medium" and
\* "general" when omitted); the tasks already there stay unchanged and in
\* order, and the returned progress counts the collection with the new task.
CreateAppendsOne ==
    [][(last'.op = "create" /\ ~Blank(Val(last'.body.title))) =>
          LET n == Len(tasks_db)
              t == tasks_db'[n + 1]
              progress == Val(last'.progress)
          IN  /\ last'.status = HTTP_OK
              /\ Len(tasks_db') = n + 1
              /\ SubSeq(tasks_db', 1, n) = tasks_db
              /\ IsTrimOf(t.title, Val(last'.body.title))
              /\ t.completed = FALSE
              /\ t.completed_at = None
              /\ t.priority = Supplied(last'.body.priority, "medium")
              /\ t.category = Supplied(last'.body.category, "general")
              /\ last'.task = Some(t)
              /\ progress.total = n + 1
              /\ progress.completed =
                    Cardinality({i \in 1..n : tasks_db[i].completed})
    ]_vars

\* a Create with a padded title and no priority or category has just added
\* a second task
CreatedPaddedSecond ==
    /\ last.op = "create"
    /\ last.status = HTTP_OK
    /\ Val(last.body.title) # Val(last.task).title
    /\ last.body.priority = None
    /\ last.body.category = None
    /\ Len(tasks_db) = 2

\* C4: a Create whose title is empty or only whitespace ends in HTTP 400
\* and leaves the collection as it was.
BlankCreateRejected ==
    [][(last'.op = "create" /\ Blank(Val(last'.body.title))) =>
          /\ last'.status = HTTP_BAD_REQUEST
          /\ tasks_db' = tasks_db
    ]_vars

\* a whitespace-only Create was rejected while the collection held a task
RejectedWhitespace ==
    /\ last.op = "create"
    /\ last.status = HTTP_BAD_REQUEST
    /\ Val(last.body.title) # <<>>
    /\ Len(tasks_db) > 0

\* C5 as stated: after two Toggles of a task in succession its completed
\* flag is the original one and its completed_at is null.
ToggleTwiceRestoresAndClears ==
    hist.toggles.n = 2 =>
        /\ TaskWithId(hist.toggles.id).completed = hist.toggles.first
        /\ TaskWithId(hist.toggles.id).completed_at = None

\* C5 amended: after two Toggles of a task in succession its completed
\* flag is the original one; its completed_at is null if the task was not
\* completed originally and is a timestamp if it was.
ToggleTwiceRestores ==
    hist.toggles.n = 2 =>
        /\ TaskWithId(hist.toggles.id).completed = hist.toggles.first
        /\ (TaskWithId(hist.toggles.id).completed_at = None)
              <=> ~hist.toggles.first

\* a task that was not completed has been toggled twice in succession
ToggledTwice ==
    /\ hist.toggles.n = 2
    /\ ~hist.toggles.first
    /\ last.op = "toggle"
    /\ Val(last.task).completed_at = None

\* C6: ClearCompleted always succeeds and removes exactly the completed
\* tasks: the tasks that were not completed stay, unchanged and in order,
\* deleted_count is the number of tasks removed (0, with the collection
\* unchanged, when none was completed), and a List right after shows no
\* completed task.
ClearRemovesCompleted ==
    [][last'.op = "clear" =>
          LET kept == {i \in DOMAIN tasks_db : ~tasks_db[i].completed}
              gone == DOMAIN tasks_db \ kept
              nth(j) == CHOOSE i \in kept :
                            Cardinality({k \in kept : k <= i}) = j
              listed == sorted(tasks_db')
          IN  /\ last'.status = HTTP_OK
              /\ Len(tasks_db') = Cardinality(kept)
              /\ \A j \in DOMAIN tasks_db' : tasks_db'[j] = tasks_db[nth(j)]
              /\ last'.deleted_count = Some(Cardinality(gone))
              /\ Len(tasks_db) - Len(tasks_db') = Cardinality(gone)
              /\ gone = {} => tasks_db' = tasks_db
              /\ Len(listed) = Len(tasks_db')
              /\ \A j \in DOMAIN listed : ~listed[j].completed
              /\ calculate_progress(tasks_db').completed = 0
    ]_vars

\* ClearCompleted has just removed the second of three tasks
ClearedMiddle ==
    /\ last.op = "clear"
    /\ last.deleted_count = Some(1)
    /\ Len(tasks_db) = 2
    /\ tasks_db[1].id = 1
    /\ tasks_db[2].id = 3

\* C7: Toggle, Update and Delete of an id that no task has end in HTTP 404
\* and leave the collection as it was.
UnknownIdNotFound ==
    [][(/\ last'.op \in {"toggle", "update", "delete"}
        /\ \A i \in DOMAIN tasks_db : tasks_db[i].id # last'.id) =>
          /\ last'.status = HTTP_NOT_FOUND
          /\ tasks_db' = tasks_db
    ]_vars

\* a Delete of an id that was never drawn was answered while the
\* collection held two tasks
DeletedUnknown ==
    /\ last.op = "delete"
    /\ last.status = HTTP_NOT_FOUND
    /\ last.id = issued + 1
    /\ Len(tasks_db) = 2

RECURSIVE SumOver(_, _, _)
SumOver(stats, keys, completed) ==
    IF keys = {} THEN 0
    ELSE LET c == CHOOSE k \in keys : TRUE IN
         (IF completed THEN stats[c].completed ELSE stats[c].total)
           + SumOver(stats, keys \ {c}, completed)

\* C8: in every reachable state the per-category totals of category_stats
\* add up to progress.total, the per-category completed counts add up to
\* progress.completed, and a category has an entry exactly when some task
\* has it.
CategoryStatsAgree ==
    LET stats == get_category_stats(tasks_db)
        progress == calculate_progress(tasks_db)
    IN  /\ SumOver(stats, DOMAIN stats, FALSE) = progress.total
        /\ SumOver(stats, DOMAIN stats, TRUE) = progress.completed
        /\ DOMAIN stats = {tasks_db[i].category : i \in DOMAIN tasks_db}
        /\ last.op = "list" =>
              /\ last.category_stats = stats
              /\ last.progress = Some(progress)

\* a List has reported two categories, one with a completed task and one
\* without
ListedTwoCategories ==
    /\ last.op = "list"
    /\ DOMAIN last.category_stats = {"general", "work"}
    /\ last.category_stats["general"].completed = 1
    /\ last.category_stats["work"].completed = 0
    /\ Val(last.progress).total = 3

\* C9: after N successful Creates from the empty collection, with no
\* Delete or ClearCompleted removing a task, List returns N tasks, none
\* with a smaller created_at than the task after it, and progress.total
\* is N.
ListAfterCreates ==
    (last.op = "list" /\ ~hist.removed) =>
        /\ Len(last.tasks) = hist.creates
        /\ \A i \in 1..(Len(last.tasks) - 1) :
              ~StrLess(last.tasks[i].created_at, last.tasks[i + 1].created_at)
        /\ Val(last.progress).total = hist.creates

\* a List has returned three created tasks in another order than the one
\* they were created in
ListedReordered ==
    /\ last.op = "list"
    /\ ~hist.removed
    /\ hist.creates = 3
    /\ last.tasks # tasks_db

\* C10: progress.total is the number of tasks, progress.completed the
\* number of completed ones, progress.percentage is completed/total*100
\* rounded to one decimal (halves to even) when total > 0 and 0 when
\* total is 0.
ProgressCounts ==
    last.progress # None =>
        LET progress == Val(last.progress)
            done == Cardinality({i \in DOMAIN tasks_db :
                                    tasks_db[i].completed})
            twice == 2 * (progress.percentage * progress.total - 1000 * done)
        IN  /\ progress.total = Len(tasks_db)
            /\ progress.completed = done
            /\ progress.total = 0 => progress.percentage = 0
            /\ twice <= progress.total
            /\ -twice <= progress.total
            /\ (twice = progress.total \/ -twice = progress.total) =>
                  progress.percentage % 2 = 0

\* a response has reported two completed tasks of three as 66.7 percent
ReportedTwoThirds ==
    /\ last.progress # None
    /\ Val(last.progress).total = 3
    /\ Val(last.progress).completed = 2
    /\ Val(last.progress).percentage = 667

\* C11: an Update of an existing id changes only the fields the request
\* supplies, out of title, completed (with completed_at), priority and
\* category; a field that is not supplied keeps its value, and an Update
\* that supplies no field succeeds and leaves the collection unchanged.
UpdateOnlySupplied ==
    [][(/\ last'.op = "update"
        /\ \E i \in DOMAIN tasks_db : tasks_db[i].id = last'.id) =>
          LET i == CHOOSE k \in DOMAIN tasks_db : tasks_db[k].id = last'.id
              old == tasks_db[i]
              new == tasks_db'[i]
              body == last'.body
          IN  /\ last'.status = HTTP_OK
              /\ DOMAIN tasks_db' = DOMAIN tasks_db
              /\ new.id = old.id
              /\ new.created_at = old.created_at
              /\ body.title = None => new.title = old.title
              /\ body.completed = None =>
                    /\ new.completed = old.completed
                    /\ new.completed_at = old.completed_at
              /\ body.priority = None => new.priority = old.priority
              /\ body.category = None => new.category = old.category
              /\ body = NoBody =>
                    /\ tasks_db' = tasks_db
                    /\ last'.task = Some(old)
    ]_vars

\* an Update that supplied only a category has changed the category of a
\* completed task with priority "high"
UpdatedCategoryOnly ==
    /\ last.op = "update"
    /\ last.status = HTTP_OK
    /\ last.body = TaskUpdate(None, None, None, Some("work"))
    /\ Val(last.task).priority = "high"
    /\ Val(last.task).completed
    /\ Val(last.task).category = "work"

\* C12: no two tasks of the collection share an id, and a Create never
\* assigns an id that an earlier task had, removed tasks included.
IdsUnique ==
    [][/\ \A i, j \in DOMAIN tasks_db' :
            tasks_db'[i].id = tasks_db'[j].id => i = j
       /\ (last'.op = "create" /\ last'.status = HTTP_OK) =>
            /\ Val(last'.task).id \notin hist.assigned
            /\ \A i \in DOMAIN tasks_db :
                  tasks_db[i].id # Val(last'.task).id
    ]_vars

\* a Create has succeeded after an earlier task was removed
CreatedAfterRemoval ==
    /\ last.op = "create"
    /\ last.status = HTTP_OK
    /\ hist.removed
    /\ Cardinality(hist.assigned) = 3
    /\ Len(tasks_db) = 2

Stamps(db) == [i \in DOMAIN db |-> <<db[i].id, db[i].created_at>>]

\* a is b with some elements left out
RECURSIVE IsSubSeq(_, _)
IsSubSeq(a, b) ==
    IF a = <<>> THEN TRUE
    ELSE IF b = <<>> THEN FALSE
    ELSE IF Head(a) = Head(b) THEN IsSubSeq(Tail(a), Tail(b))
    ELSE IsSubSeq(a, Tail(b))

\* C13: no Toggle, Update, Delete or ClearCompleted changes the id or the
\* created_at of a task that remains in the collection.
CreationFieldsFixed ==
    [][/\ last'.op \in {"toggle", "update"} =>
            Stamps(tasks_db') = Stamps(tasks_db)
       /\ last'.op \in {"delete", "clear"} =>
            IsSubSeq(Stamps(tasks_db'), Stamps(tasks_db))
    ]_vars

\* a Toggle has completed the second of three tasks at another clock
\* reading than the one it was created at
ToggledLater ==
    /\ last.op = "toggle"
    /\ last.status = HTTP_OK
    /\ Len(tasks_db) = 3
    /\ last.id = tasks_db[2].id
    /\ tasks_db[2].completed_at # None
    /\ tasks_db[2].completed_at # Some(tasks_db[2].created_at)

\* C14: the completed_at of a task changes only in a step in which its
\* completed flag changes; an Update that supplies the completed value the
\* task already has leaves completed_at unchanged.
StampOnlyOnTransition ==
    [][(last'.op \in {"toggle", "update"} /\ last'.status = HTTP_OK) =>
          \A i \in DOMAIN tasks_db :
              tasks_db'[i].completed_at # tasks_db[i].completed_at =>
                  tasks_db'[i].completed # tasks_db[i].completed
    ]_vars

\* C18: in the list that List returns, two tasks with equal created_at
\* are in the order in which they are in the collection.
TiesKeepInsertionOrder ==
    last.op = "list" =>
        \A i, j \in DOMAIN last.tasks :
            (i < j /\ last.tasks[i].created_at = last.tasks[j].created_at) =>
                FirstIndex(tasks_db, last.tasks[i].id)
                    < FirstIndex(tasks_db, last.tasks[j].id)

\* a List has moved a later task before two tasks of equal created_at
ListedTies ==
    /\ last.op = "list"
    /\ Len(last.tasks) = 3
    /\ last.tasks[2].created_at = last.tasks[3].created_at
    /\ last.tasks[1].id = tasks_db[3].id

\* C19: a successful Toggle or Update modifies only the task with the
\* given id: every other task keeps its fields, and the membership and the
\* order of the collection stay; List does not modify the collection.
OnlyTargetModified ==
    [][/\ (last'.op \in {"toggle", "update"} /\ last'.status = HTTP_OK) =>
            /\ Len(tasks_db') = Len(tasks_db)
            /\ \A i \in DOMAIN tasks_db :
                  /\ tasks_db'[i].id = tasks_db[i].id
                  /\ tasks_db[i].id # last'.id => tasks_db'[i] = tasks_db[i]
            /\ \E i \in DOMAIN tasks_db : tasks_db[i].id = last'.id
       /\ last'.op = "list" => tasks_db' = tasks_db
    ]_vars

\* an Update has changed the second of three tasks
UpdatedSecond ==
    /\ last.op = "update"
    /\ last.status = HTTP_OK
    /\ Len(tasks_db) = 3
    /\ last.id = tasks_db[2].id
    /\ tasks_db[2].category # tasks_db[1].category

\* C20: a Delete of an id that is in the collection removes the task with
\* that id and no other: the collection is one shorter, the other tasks
\* stay unchanged and in order, and the returned progress counts the
\* collection without the removed task.
DeleteRemovesOne ==
    [][(/\ last'.op = "delete"
        /\ \E i \in DOMAIN tasks_db : tasks_db[i].id = last'.id) =>
          LET i == CHOOSE k \in DOMAIN tasks_db : tasks_db[k].id = last'.id
              progress == Val(last'.progress)
          IN  /\ last'.status = HTTP_OK
              /\ Len(tasks_db') = Len(tasks_db) - 1
              /\ \A k \in 1..(i - 1) : tasks_db'[k] = tasks_db[k]
              /\ \A k \in (i + 1)..Len(tasks_db) :
                    tasks_db'[k - 1] = tasks_db[k]
              /\ progress.total = Len(tasks_db) - 1
              /\ progress.completed =
                    Cardinality({k \in DOMAIN tasks_db \ {i} :
                                    tasks_db[k].completed})
    ]_vars

\* a Delete has removed the second of three tasks
DeletedMiddle ==
    /\ last.op = "delete"
    /\ last.status = HTTP_OK
    /\ last.id = 2
    /\ Len(tasks_db) = 2
    /\ tasks_db[1].id = 1
    /\ tasks_db[2].id = 3

\* C15: no update is lost when handlers run at the same time; the formula
\* states its first half: a task whose Create has returned success is in
\* the collection unless a Delete of its id, or a ClearCompleted that found
\* it completed, has removed it.
CreatedTasksStay ==
    \A id \in acked.created :
        id \in Ids(tasks_db) \/ id \in acked.dropped

\* C16: under every interleaving, Delete(id) answers 404 exactly when its
\* assignment to the collection removed no task with that id.
DeleteAnswerMatches ==
    \A t \in Threads :
        threads[t].response.op = "delete" =>
            ((threads[t].response.status = HTTP_NOT_FOUND)
                <=> ~threads[t].response.removed)

\* C17: every List response is one snapshot: progress.total is the number
\* of tasks returned, progress.completed the number of them that are
\* completed, category_stats counts the same tasks, and every returned
\* task has completed_at non-null exactly when it is completed.
ListIsSnapshot ==
    \A t \in Threads :
        threads[t].response.op = "list" =>
            LET r == threads[t].response
                progress == Val(r.progress)
            IN  /\ progress.total = Len(r.tasks)
                /\ progress.completed =
                      Cardinality({i \in DOMAIN r.tasks :
                                      r.tasks[i].completed})
                /\ progress.completed <= progress.total
                /\ r.category_stats = get_category_stats(r.tasks)
                /\ \A i \in DOMAIN r.tasks :
                      r.tasks[i].completed
                          <=> (r.tasks[i].completed_at # None)

=============================================================================
